---- MODULE Spec2Model ----
(***************************************************************************)
(* Model of src/smokey.js: PathSegment, Path, Figure, Smoke, SmokeParticle. *)
(*                                                                         *)
(* Units.  The source computes with floating point; the model keeps every  *)
(* quantity an exact integer by fixing the unit:                           *)
(*   time      milliseconds (millis())                                     *)
(*   distance  1/1000 of the source's unit, so that                        *)
(*             speed * (time - creationTime) / 1000 is speed * elapsedMs   *)
(*             and a smoke segment (distance 2) is 2000                    *)
(*   alpha     1/10 of the source's unit, so that 300 * delta is           *)
(*             3 * deltaMs and 255 is 2550                                 *)
(*   angle     pi/200, so that HALF_PI is 100 and a full turn 400          *)
(*                                                                         *)
(* Vectors.  p5.Vector.fromAngle needs sin and cos; a vector is kept as    *)
(* the formal sum of its polar components, a set of <<heading, length>>    *)
(* pairs with one pair per heading and no zero length.  Two vectors with   *)
(* the same components are the same vector.                                *)
(*                                                                         *)
(* Heap.  The origin vectors of paths and the segment arrays are objects   *)
(* that copy() and walkToSegment may alias: they live in vectors and       *)
(* arrays and are named by their index.  A particle's position is only     *)
(* ever replaced by a vector nothing mutates afterwards, and is held by    *)
(* value.                                                                  *)
(***************************************************************************)
EXTENDS Integers, Sequences, FiniteSets, TLC

VARIABLES
    vectors,    \* heap of the origin vectors of paths, by reference 1, 2, ...
    arrays,     \* heap of the segment arrays of paths, by reference
    figure,     \* the parent Figure (a Path object)
    copyOf,     \* the Path figure.copy() returned last, or NoPath
    location,   \* what walkToSegment returned last, or NoLocation
    smoke,      \* the Smoke object, or NoSmoke
    assigned,   \* indices the last calculateParticlePositions wrote a position to
    now,        \* millis()
    ticks,      \* how often the clock has been advanced
    particle,   \* a free-standing SmokeParticle
    lastCall    \* the last operation called and its arguments

vars == <<vectors, arrays, figure, copyOf, location, smoke, assigned, now, ticks,
          particle, lastCall>>

----------------------------------------------------------------------------
(* Bounds of the model *)

\* longest parent figure / copied path that is built
MaxSegments == 2
\* number of vector objects the path heap may hold
MaxVectors == 3
\* number of segment arrays the path heap may hold
MaxArrays == 2
\* the clock (millis()) is advanced at most this often
MaxTicks == 4
\* frames are run while the clock (millis()) is below this value, in ms
MaxClock == 3000
\* calculateParticlePositions on its own: particles and segments at most
MaxCalcParticles == 2
MaxCalcSegments == 2

----------------------------------------------------------------------------
(* Program constants *)

HALF_PI == 100
TWO_PI == 400
\* distance of every generated smoke segment (2)
SegmentDistance == 2 * 1000
\* opaque alpha (255)
FullAlpha == 255 * 10
\* alpha change per millisecond (300 per second)
AlphaRate == 3
\* number of particles seeded by prepareParticles
SeedParticles == 2

NoPath == [originPosition |-> 0, originHeading |-> 0, segments |-> 0]
NoLocation == [offset |-> 0, heading |-> 0]

----------------------------------------------------------------------------
(* 2D vectors (p5.Vector) as formal sums of polar components *)

ZeroVector == {}

Headings(v) == {c[1] : c \in v}

Component(v, h) == IF \E c \in v : c[1] = h
                   THEN (CHOOSE c \in v : c[1] = h)[2]
                   ELSE 0

\* p5.Vector.fromAngle(angle, length)
FromAngle(angle, length) ==
    IF length = 0 THEN ZeroVector
    ELSE IF length > 0 THEN {<<angle % TWO_PI, length>>}
    ELSE {<<(angle + 2 * HALF_PI) % TWO_PI, -length>>}

\* p5.Vector.add(a, b), a.add(b)
VecAdd(a, b) ==
    {c \in {<<h, Component(a, h) + Component(b, h)>> : h \in Headings(a) \cup Headings(b)} :
        c[2] # 0}

\* v.mag() of a vector with a single polar component (the only vectors the
\* source takes the magnitude of come straight from fromAngle)
Mag(v) == IF v = ZeroVector THEN 0 ELSE (CHOOSE c \in v : TRUE)[2]

\* v.setMag(m): normalize() leaves the zero vector alone, then mult(m)
SetMag(v, m) ==
    IF v = ZeroVector \/ m = 0 THEN ZeroVector
    ELSE LET c == CHOOSE d \in v : TRUE IN FromAngle(c[1], m)

----------------------------------------------------------------------------
(* PathSegment, Path *)

PathSegment(angle, distance) == [angle |-> angle, distance |-> distance]

PathSegmentCopy(segment) == PathSegment(segment.angle, segment.distance)

\* new Path(): a fresh origin vector (0, 0), heading 0, a fresh empty array.
\* Returns the heap after the allocation and the new object.
NewPath(vs, as) ==
    [vectors |-> Append(vs, ZeroVector),
     arrays  |-> Append(as, << >>),
     path    |-> [originPosition |-> Len(vs) + 1,
                  originHeading  |-> 0,
                  segments       |-> Len(as) + 1]]

\* path.addSegment(segment): push onto the path's own array
AddSegment(as, path, segment) ==
    [as EXCEPT ![path.segments] = Append(@, segment)]

RECURSIVE CopySegments(_, _, _, _)
\* this.segments.forEach(segment => path.addSegment(segment.copy()))
CopySegments(as, from, to, i) ==
    IF i > Len(as[from.segments]) THEN as
    ELSE CopySegments(AddSegment(as, to, PathSegmentCopy(as[from.segments][i])),
                      from, to, i + 1)

\* Path.copy() that hands its own segment array to the new path
PathCopySharedSegments(vs, as, this) ==
    LET fresh == NewPath(vs, as)
    IN [vectors |-> fresh.vectors,
        arrays  |-> fresh.arrays,
        path    |-> [originPosition |-> this.originPosition,
                     originHeading  |-> this.originHeading,
                     segments       |-> this.segments]]

\* Path.copy(): the origin vector is shared, the segments are copied into
\* the new path's own array
PathCopy(vs, as, this) ==
    LET fresh == NewPath(vs, as)
        path  == [fresh.path EXCEPT !.originPosition = this.originPosition,
                                    !.originHeading = this.originHeading]
    IN [vectors |-> fresh.vectors,
        arrays  |-> CopySegments(fresh.arrays, this, path, 1),
        path    |-> path]

Segments(path) == arrays[path.segments]
Origin(path) == vectors[path.originPosition]

----------------------------------------------------------------------------
(* Smoke.walkToSegment *)

RECURSIVE WalkLoopThroughBranch(_, _, _, _, _)
\* the for loop breaking when i > branchIndex: the segment at branchIndex is
\* walked too
WalkLoopThroughBranch(segments, branchIndex, i, position, heading) ==
    IF i >= Len(segments) \/ i > branchIndex
    THEN [offset |-> position, heading |-> heading]
    ELSE LET segment == segments[i + 1]
             h       == heading + segment.angle
             vector  == FromAngle(h, segment.distance)
         IN WalkLoopThroughBranch(segments, branchIndex, i + 1,
                                  VecAdd(position, vector), h)

RECURSIVE WalkLoop(_, _, _, _, _)
\* the for loop: i is the 0-based loop index, position the local copy
WalkLoop(segments, branchIndex, i, position, heading) ==
    IF i >= Len(segments) \/ i >= branchIndex
    THEN [offset |-> position, heading |-> heading]
    ELSE LET segment == segments[i + 1]
             h       == heading + segment.angle
             vector  == FromAngle(h, segment.distance)
         IN WalkLoop(segments, branchIndex, i + 1, VecAdd(position, vector), h)

\* walkToSegment(figure, branchIndex): position is a copy of the figure's
\* origin, a new vector object; the result names it
WalkToSegment(vs, as, fig, branchIndex) ==
    LET r == WalkLoop(as[fig.segments], branchIndex, 0,
                      vs[fig.originPosition], fig.originHeading)
    IN [vectors |-> Append(vs, r.offset),
        offset  |-> Len(vs) + 1,
        heading |-> r.heading]

----------------------------------------------------------------------------
(* Host environment: noise(), random() *)

\* noise(x): a fixed function of the noise coordinate (in 1/1000) with values
\* in tenths, 0..9 for [0, 1): 0.5 with an occasional bump either way
Noise(x) ==
    LET k == (x \div 4) % 16
    IN IF k = 3 THEN 7 ELSE IF k = 11 THEN 2 ELSE 5

\* the values floor(random(n)) can take: [0, n), and 0 when n = 0
FloorRandom(n) == IF n <= 0 THEN {0} ELSE 0 .. (n - 1)

\* the values floor(random(min, max)) can take for integers min <= max:
\* random is rand * (max - min) + min with rand in [0, 1)
FloorRandomBetween(min, max) == IF max <= min THEN {min} ELSE min .. (max - 1)

----------------------------------------------------------------------------
(* SmokeParticle *)

\* fadeIn()
FadeIn(p) == [p EXCEPT !.alpha = 0, !.alphaDirection = 1]

\* fadeOut() with the sign of fadeIn()
FadeOutWrongSign(p) == [p EXCEPT !.alpha = FullAlpha, !.alphaDirection = 1]

\* fadeOut()
FadeOut(p) == [p EXCEPT !.alpha = FullAlpha, !.alphaDirection = -1]

\* new SmokeParticle(distanceOffset) at clock value time; id is the
\* object's identity, the other arguments are the constructor's random()
\* draws
NewParticle(id, distanceOffset, speed, xoffAngleStart, gap, time) ==
    FadeIn([id             |-> id,
            speed          |-> speed,
            distance       |-> distanceOffset,
            creationTime   |-> time,
            lastTime       |-> time,
            position       |-> ZeroVector,
            xoffAngleStart |-> xoffAngleStart,
            xoffAngle      |-> 0,
            gap            |-> gap,
            alpha          |-> FullAlpha,
            alphaDirection |-> 0,
            isAlive        |-> TRUE])

\* update(time) whose fade-in branch stops the fade at 255 without clamping
\* alpha, and whose fade-out branch stops at 0 without clamping
ParticleUpdateNoClamp(p, time) ==
    LET elapsed == time - p.creationTime
        delta   == time - p.lastTime
        q == [p EXCEPT !.lastTime  = time,
                       !.distance  = p.speed * elapsed,
                       !.xoffAngle = p.xoffAngleStart + (elapsed * 2)]
    IN IF delta = 0 THEN q
       ELSE CASE q.alphaDirection = 1 ->
                   LET a == q.alpha + AlphaRate * delta
                   IN IF a >= FullAlpha
                      THEN [q EXCEPT !.alpha = a, !.alphaDirection = 0]
                      ELSE [q EXCEPT !.alpha = a]
              [] q.alphaDirection = -1 ->
                   LET a == q.alpha - AlphaRate * delta
                   IN IF a <= 0
                      THEN [q EXCEPT !.alpha = a, !.alphaDirection = 0,
                                     !.isAlive = FALSE]
                      ELSE [q EXCEPT !.alpha = a]
              [] OTHER -> q

\* update(time) that derives isAlive from alpha while fading out
ParticleUpdateAliveFromAlpha(p, time) ==
    LET elapsed == time - p.creationTime
        delta   == time - p.lastTime
        q == [p EXCEPT !.lastTime  = time,
                       !.distance  = p.speed * elapsed,
                       !.xoffAngle = p.xoffAngleStart + (elapsed * 2)]
    IN IF delta = 0 THEN q
       ELSE CASE q.alphaDirection = 1 ->
                   LET a == q.alpha + AlphaRate * delta
                   IN IF a >= FullAlpha
                      THEN [q EXCEPT !.alpha = FullAlpha, !.alphaDirection = 0]
                      ELSE [q EXCEPT !.alpha = a]
              [] q.alphaDirection = -1 ->
                   LET a == q.alpha - AlphaRate * delta
                   IN IF a <= 0
                      THEN [q EXCEPT !.alpha = 0, !.alphaDirection = 0,
                                     !.isAlive = FALSE]
                      ELSE [q EXCEPT !.alpha = a, !.isAlive = TRUE]
              [] OTHER -> q

\* update(time) that integrates the distance step by step
ParticleUpdateIntegrate(p, time) ==
    LET elapsed == time - p.creationTime
        delta   == time - p.lastTime
        q == [p EXCEPT !.lastTime  = time,
                       !.distance  = p.distance + p.speed * delta,
                       !.xoffAngle = p.xoffAngleStart + (elapsed * 2)]
    IN IF delta = 0 THEN q
       ELSE CASE q.alphaDirection = 1 ->
                   LET a == q.alpha + AlphaRate * delta
                   IN IF a >= FullAlpha
                      THEN [q EXCEPT !.alpha = FullAlpha, !.alphaDirection = 0]
                      ELSE [q EXCEPT !.alpha = a]
              [] q.alphaDirection = -1 ->
                   LET a == q.alpha - AlphaRate * delta
                   IN IF a <= 0
                      THEN [q EXCEPT !.alpha = 0, !.alphaDirection = 0,
                                     !.isAlive = FALSE]
                      ELSE [q EXCEPT !.alpha = a]
              [] OTHER -> q

\* update(time) that does not store the timestamp in lastTime
ParticleUpdateKeepLastTime(p, time) ==
    LET elapsed == time - p.creationTime
        delta   == time - p.lastTime
        q == [p EXCEPT !.distance  = p.speed * elapsed,
                       !.xoffAngle = p.xoffAngleStart + (elapsed * 2)]
    IN IF delta = 0 THEN q
       ELSE CASE q.alphaDirection = 1 ->
                   LET a == q.alpha + AlphaRate * delta
                   IN IF a >= FullAlpha
                      THEN [q EXCEPT !.alpha = FullAlpha, !.alphaDirection = 0]
                      ELSE [q EXCEPT !.alpha = a]
              [] q.alphaDirection = -1 ->
                   LET a == q.alpha - AlphaRate * delta
                   IN IF a <= 0
                      THEN [q EXCEPT !.alpha = 0, !.alphaDirection = 0,
                                     !.isAlive = FALSE]
                      ELSE [q EXCEPT !.alpha = a]
              [] OTHER -> q

\* update(time)
ParticleUpdate(p, time) ==
    LET elapsed == time - p.creationTime
        delta   == time - p.lastTime
        q == [p EXCEPT !.lastTime  = time,
                       !.distance  = p.speed * elapsed,
                       !.xoffAngle = p.xoffAngleStart + (elapsed * 2)]
    IN IF delta = 0 THEN q
       ELSE CASE q.alphaDirection = 1 ->
                   LET a == q.alpha + AlphaRate * delta
                   IN IF a >= FullAlpha
                      THEN [q EXCEPT !.alpha = FullAlpha, !.alphaDirection = 0]
                      ELSE [q EXCEPT !.alpha = a]
              [] q.alphaDirection = -1 ->
                   LET a == q.alpha - AlphaRate * delta
                   IN IF a <= 0
                      THEN [q EXCEPT !.alpha = 0, !.alphaDirection = 0,
                                     !.isAlive = FALSE]
                      ELSE [q EXCEPT !.alpha = a]
              [] OTHER -> q

----------------------------------------------------------------------------
(* Smoke *)

\* branchIndex = null, the constructor's default
Null == -1

NoSmoke == [originPosition |-> 0, originHeading |-> 0, segments |-> 0,
            particles |-> << >>]

\* createSmokePath(length): the i-th pass of the loop (i from 0) reads the
\* noise cursor at xoff + i * 0.004 (0.004 is 4) and pushes one segment
SmokeSegment(xoff, i) ==
    LET angle == ((Noise(xoff + i * 4) - 5) * HALF_PI) \div 100
    IN PathSegment(angle, SegmentDistance)

\* createSmokePath whose loop runs while i <= length
CreateSmokePathInclusive(as, this, length, xoff) ==
    [as EXCEPT ![this.segments] =
        @ \o [i \in 1 .. length + 1 |-> SmokeSegment(xoff, i - 1)]]

CreateSmokePath(as, this, length, xoff) ==
    [as EXCEPT ![this.segments] =
        @ \o [i \in 1 .. length |-> SmokeSegment(xoff, i - 1)]]

\* the values random(length) of spawnParticle can take, two of them: [0, length)
SpawnOffsets(length) == IF length = 0 THEN {0} ELSE {0, (length * 1000 * 3) \div 4}

\* spawnParticle(): distanceOffset is its random(length) draw, d the
\* SmokeParticle constructor's draws
SpawnParticle(particles, distanceOffset, d, time) ==
    Append(particles,
           NewParticle(Len(particles) + 1, distanceOffset, d.speed, d.xoffAngleStart,
                       d.gap, time))

RECURSIVE PrepareParticles(_, _, _, _)
\* prepareParticles(): draws[i] holds the random draws of the i-th spawn
PrepareParticles(particles, i, draws, time) ==
    IF i >= SeedParticles THEN particles
    ELSE PrepareParticles(SpawnParticle(particles, draws[i + 1].distanceOffset,
                                        draws[i + 1], time),
                          i + 1, draws, time)

\* new Smoke(figure, branchIndex, minLength, maxLength): branch, length and
\* xoff are the values drawn by random(), draws those of the particles
NewSmoke(vs, as, fig, branchIndex, branch, length, xoff, draws, time) ==
    LET super    == NewPath(vs, as)
        index    == IF branchIndex = Null THEN branch ELSE branchIndex
        loc      == WalkToSegment(super.vectors, super.arrays, fig, index)
        this     == [originPosition |-> loc.offset,
                     originHeading  |-> loc.heading,
                     segments       |-> super.path.segments]
    IN [vectors |-> loc.vectors,
        arrays  |-> CreateSmokePath(super.arrays, this, length, xoff),
        smoke   |-> [originPosition |-> this.originPosition,
                     originHeading  |-> this.originHeading,
                     segments       |-> this.segments,
                     particles      |-> PrepareParticles(<< >>, 0, draws, time)]]

RECURSIVE FilterUpdateRespawn(_, _, _)
\* the filter putting a newly constructed particle in the place of each one
\* that died
FilterUpdateRespawn(particles, i, time) ==
    IF i > Len(particles) THEN << >>
    ELSE LET p == ParticleUpdate(particles[i], time)
         IN (IF p.isAlive THEN <<p>>
             ELSE <<NewParticle(p.id + SeedParticles, 0, p.speed, p.xoffAngleStart,
                                p.gap, time)>>)
               \o FilterUpdateRespawn(particles, i + 1, time)

RECURSIVE FilterUpdateTestFirst(_, _, _)
\* the filter deciding on isAlive as it was before the particle's update
FilterUpdateTestFirst(particles, i, time) ==
    IF i > Len(particles) THEN << >>
    ELSE LET p == ParticleUpdate(particles[i], time)
         IN (IF particles[i].isAlive THEN <<p>> ELSE << >>)
               \o FilterUpdateTestFirst(particles, i + 1, time)

RECURSIVE FilterUpdate(_, _, _)
\* this.particles.filter(p => { p.update(time); return p.isAlive; })
FilterUpdate(particles, i, time) ==
    IF i > Len(particles) THEN << >>
    ELSE LET p == ParticleUpdate(particles[i], time)
         IN (IF p.isAlive THEN <<p>> ELSE << >>) \o FilterUpdate(particles, i + 1, time)

\* one step of the sort: p goes after every particle that is not farther
InsertByDistance(sorted, p) ==
    LET k == Cardinality({i \in 1 .. Len(sorted) : sorted[i].distance - p.distance <= 0})
    IN SubSeq(sorted, 1, k) \o <<p>> \o SubSeq(sorted, k + 1, Len(sorted))

\* no sort: the particles stay in the order of the filter
SortKeepOrder(particles, i, sorted) == particles

RECURSIVE SortByDistance(_, _, _)
\* this.particles.sort((a, b) => a.distance - b.distance), a stable sort
SortByDistance(particles, i, sorted) ==
    IF i > Len(particles) THEN sorted
    ELSE SortByDistance(particles, i + 1, InsertByDistance(sorted, particles[i]))

\* the tail loop that pins the particle and never calls fadeOut()
FadeOutAtEndNever(p) == p

\* the tail loop without its test: fadeOut() on every particle it reaches
FadeOutAtEndAlways(p) == FadeOut(p)

\* the tail loop's test: fade out only a steady particle
FadeOutAtEndIfSteady(p) == IF p.alphaDirection = 0 THEN FadeOut(p) ELSE p

\* if (particle.alphaDirection != -1) particle.fadeOut()
FadeOutAtEnd(p) == IF p.alphaDirection # -1 THEN FadeOut(p) ELSE p

RECURSIVE PlaceInSegment(_, _, _)
\* the while (true) loop within one segment.  st holds the locals of the
\* call: particleIndex (0-based), remainingDistance, position and heading,
\* with the particles, the set of indices whose position the call has
\* written, and whether the call has returned
PlaceInSegment(st, segment, vector) ==
    IF segment.distance >= st.remainingDistance
    THEN LET workVector == SetMag(vector, st.remainingDistance)
             i      == st.particleIndex
             placed == [st.particles EXCEPT
                           ![i + 1].position = VecAdd(st.position, workVector)]
         IN IF i + 1 >= Len(placed)
            THEN [st EXCEPT !.particles = placed, !.particleIndex = i + 1,
                            !.assigned = @ \cup {i}, !.returned = TRUE]
            ELSE PlaceInSegment(
                     [st EXCEPT !.particles = placed, !.particleIndex = i + 1,
                                !.assigned = @ \cup {i},
                                !.remainingDistance =
                                    @ + placed[i + 2].distance - placed[i + 1].distance],
                     segment, vector)
    ELSE st

\* one pass of the for loop that moves on to the next segment without
\* taking the segment's length off remainingDistance
WalkSegmentKeepRemaining(st, segment) ==
    LET h      == st.heading + segment.angle
        vector == FromAngle(h, segment.distance)
        st1    == PlaceInSegment([st EXCEPT !.heading = h], segment, vector)
    IN IF st1.returned THEN st1
       ELSE [st1 EXCEPT !.position = VecAdd(@, vector)]

\* one pass of for (const segment of this.segments)
WalkSegment(st, segment) ==
    LET h      == st.heading + segment.angle
        vector == FromAngle(h, segment.distance)
        st1    == PlaceInSegment([st EXCEPT !.heading = h], segment, vector)
    IN IF st1.returned THEN st1
       ELSE [st1 EXCEPT !.position = VecAdd(@, vector),
                        !.remainingDistance = @ - Mag(vector)]

RECURSIVE WalkSegments(_, _, _)
\* for (const segment of this.segments): k is the 1-based index of the
\* segment to visit
WalkSegments(st, segments, k) ==
    IF st.returned \/ k > Len(segments) THEN st
    ELSE WalkSegments(WalkSegment(st, segments[k]), segments, k + 1)

RECURSIVE PinToEndButLast(_, _)
\* the tail loop running while i < this.particles.length - 1
PinToEndButLast(st, i) ==
    IF i >= Len(st.particles) - 1 THEN st
    ELSE LET pinned == [st.particles[i + 1] EXCEPT !.position = st.position]
         IN PinToEndButLast([st EXCEPT !.particles[i + 1] = FadeOutAtEnd(pinned),
                                       !.assigned = @ \cup {i}],
                            i + 1)

RECURSIVE PinToEnd(_, _)
\* for (let i = particleIndex; i < this.particles.length; ++i)
PinToEnd(st, i) ==
    IF i >= Len(st.particles) THEN st
    ELSE LET pinned == [st.particles[i + 1] EXCEPT !.position = st.position]
         IN PinToEnd([st EXCEPT !.particles[i + 1] = FadeOutAtEnd(pinned),
                                !.assigned = @ \cup {i}],
                     i + 1)

\* calculateParticlePositions() of a smoke with the given origin, heading and
\* segments: the particles afterwards and the indices it assigned
CalculateParticlePositions(origin, originHeading, segments, particles) ==
    IF Len(particles) = 0 THEN [particles |-> particles, assigned |-> {}]
    ELSE LET st0 == [particles         |-> particles,
                     particleIndex     |-> 0,
                     remainingDistance |-> particles[1].distance,
                     position          |-> origin,
                     heading           |-> originHeading,
                     assigned          |-> {},
                     returned          |-> FALSE]
             w   == WalkSegments(st0, segments, 1)
             end == IF w.returned THEN w ELSE PinToEnd(w, w.particleIndex)
         IN [particles |-> end.particles, assigned |-> end.assigned]

\* update() with millis() = time
SmokeUpdate(this, origin, segments, time) ==
    LET alive  == FilterUpdate(this.particles, 1, time)
        sorted == SortByDistance(alive, 1, << >>)
        placed == CalculateParticlePositions(origin, this.originHeading, segments, sorted)
    IN [smoke    |-> [this EXCEPT !.particles = placed.particles],
        assigned |-> placed.assigned]

----------------------------------------------------------------------------
(* The smoke system: a parent figure, one Smoke branching off it, the host's
   clock and its update / draw calls *)

NoParticle == [id |-> 0]

Call(op, branchIndex, minLength, maxLength) ==
    [op |-> op, branchIndex |-> branchIndex, minLength |-> minLength,
     maxLength |-> maxLength]
NoCall == Call("none", Null, 0, 0)

\* the i-th segment of the parent figure
ParentSegment(i) == PathSegment(30 * i - 100, 1500 * (i % 3))
\* the parent figures: none or MaxSegments segments
ParentLengths == {0, MaxSegments}
ParentOrigin == FromAngle(50, 5000)

\* millis() when the sketch starts to build its smoke
StartTimes == {40}
\* how far the clock moves between two calls, in ms
TickSteps == {15, 225, 1000}
\* random(100, 150)
Speeds == {100, 149}
\* (minLength, maxLength) the constructor is called with
LengthRanges == {<<0, 0>>, <<1, 3>>, <<2, 2>>, <<50, 50>>}
\* random(2000000), the start of the path's noise cursor
XoffSeeds == {8}
\* random(2000000) for xoffAngleStart, random(20) for gap
XoffAngleStarts == {0}
Gaps == {5000}
\* branchIndex as the caller passes it
BranchIndexArgs == {Null, 1}

SmokeInit ==
    /\ \E n \in ParentLengths :
          /\ vectors = <<ParentOrigin>>
          /\ arrays = <<[i \in 1 .. n |-> ParentSegment(i)]>>
    /\ figure = [originPosition |-> 1, originHeading |-> 10, segments |-> 1]
    /\ copyOf = NoPath
    /\ location = NoLocation
    /\ smoke = NoSmoke
    /\ assigned = {}
    /\ now \in StartTimes
    /\ ticks = 0
    /\ particle = NoParticle
    /\ lastCall = NoCall

\* the host's clock advances between two calls
Tick(dt) ==
    /\ lastCall.op # "none"
    /\ ticks < MaxTicks
    /\ now' = now + dt
    /\ ticks' = ticks + 1
    /\ UNCHANGED <<vectors, arrays, figure, copyOf, location, smoke, assigned,
                   particle, lastCall>>

\* new Smoke(figure, branchIndex, minLength, maxLength)
Construct(branchIndex, range, branch, length, xoff, draws) ==
    /\ lastCall.op = "none"
    /\ LET r == NewSmoke(vectors, arrays, figure, branchIndex, branch, length, xoff,
                         draws, now)
       IN /\ vectors' = r.vectors
          /\ arrays' = r.arrays
          /\ smoke' = r.smoke
    /\ lastCall' = Call("new", branchIndex, range[1], range[2])
    /\ UNCHANGED <<figure, copyOf, location, assigned, now, ticks, particle>>

\* the random() draws of the i-th spawnParticle call (i from 0)
SpawnDraws(i) ==
    [distanceOffset : SpawnOffsets(i * 2), speed : Speeds,
     xoffAngleStart : XoffAngleStarts, gap : Gaps]

\* smoke.update()
Update ==
    /\ lastCall.op # "none"
    /\ LET r == SmokeUpdate(smoke, Origin(smoke), Segments(smoke), now)
       IN /\ smoke' = r.smoke
          /\ assigned' = r.assigned
    /\ lastCall' = Call("update", Null, 0, 0)
    /\ UNCHANGED <<vectors, arrays, figure, copyOf, location, now, ticks, particle>>

\* smoke.draw(): sets the colour's alpha per particle and draws; no field of
\* the smoke or of a particle is written
Draw ==
    /\ lastCall.op # "none"
    /\ lastCall' = Call("draw", Null, 0, 0)
    /\ UNCHANGED <<vectors, arrays, figure, copyOf, location, smoke, assigned, now,
                   ticks, particle>>

SmokeNext ==
    \/ \E dt \in TickSteps : Tick(dt)
    \/ \E branchIndex \in BranchIndexArgs, range \in LengthRanges, xoff \in XoffSeeds :
         \E branch \in FloorRandom(Len(Segments(figure))),
            length \in FloorRandomBetween(range[1], range[2]),
            d1 \in SpawnDraws(0), d2 \in SpawnDraws(1) :
              Construct(branchIndex, range, branch, length, xoff, <<d1, d2>>)
    \/ Update
    \/ Draw

Spec == SmokeInit /\ [][SmokeNext]_vars

----------------------------------------------------------------------------
(* The smoke system run by the host's draw loop: every frame calls update
   with a later millis() than the frame before, then draw.  MaxClock is past
   the time the slowest particle needs for the longest path (1 s) plus the
   fade-out (0.85 s) plus a frame for each of the two to be noticed. *)

\* how far the clock has moved from one frame's update to the next, in ms
FrameSteps == {225, 1000}

\* a frame's smoke.update(), millis() having advanced by dt since the last
Frame(dt) ==
    /\ lastCall.op # "none"
    /\ now < MaxClock
    /\ now' = now + dt
    /\ ticks' = ticks + 1
    /\ LET r == SmokeUpdate(smoke, Origin(smoke), Segments(smoke), now')
       IN /\ smoke' = r.smoke
          /\ assigned' = r.assigned
    /\ lastCall' = Call("update", Null, 0, 0)
    /\ UNCHANGED <<vectors, arrays, figure, copyOf, location, particle>>

\* the sketch's setup: new Smoke(...) with any arguments and draws
Setup ==
    \E branchIndex \in BranchIndexArgs, range \in LengthRanges, xoff \in XoffSeeds :
       \E branch \in FloorRandom(Len(Segments(figure))),
          length \in FloorRandomBetween(range[1], range[2]),
          d1 \in SpawnDraws(0), d2 \in SpawnDraws(1) :
            Construct(branchIndex, range, branch, length, xoff, <<d1, d2>>)

LiveNext ==
    \/ Setup
    \/ \E dt \in FrameSteps : Frame(dt)
    \/ Draw

\* what makes a step a frame's update: it is the only step that moves the
\* clock, and update() can be called whenever Frame's guard holds
FrameClock ==
    /\ lastCall.op # "none"
    /\ now < MaxClock
    /\ \E dt \in FrameSteps : now' = now + dt

\* the sketch builds its smoke and the draw loop keeps running frames
SpecLive == SmokeInit /\ [][LiveNext]_vars /\ WF_vars(Setup) /\ WF_now(FrameClock)

----------------------------------------------------------------------------
(* Paths on their own: a figure is built, copied, walked *)

\* the segments a caller adds
PathSegments == {PathSegment(100, 1000), PathSegment(-30, 0)}
\* originHeading / originPosition as the sketch sets them on its figure
OriginHeadings == {10}
OriginPositions == {ZeroVector, ParentOrigin}

PathInit ==
    /\ \E origin \in OriginPositions, heading \in OriginHeadings :
          LET r == NewPath(<< >>, << >>)
          IN /\ vectors = [r.vectors EXCEPT ![r.path.originPosition] = origin]
             /\ arrays = r.arrays
             /\ figure = [r.path EXCEPT !.originHeading = heading]
    /\ copyOf = NoPath
    /\ location = NoLocation
    /\ smoke = NoSmoke
    /\ assigned = {}
    /\ now = 0
    /\ ticks = 0
    /\ particle = NoParticle
    /\ lastCall = NoCall

\* figure.addSegment(segment)
FigureAddSegment(segment) ==
    /\ Len(Segments(figure)) < MaxSegments
    /\ arrays' = AddSegment(arrays, figure, segment)
    /\ lastCall' = Call("p.addSegment", Null, 0, 0)
    /\ UNCHANGED <<vectors, figure, copyOf, location, smoke, assigned, now, ticks,
                   particle>>

\* p2 = figure.copy()
Copy ==
    /\ Len(vectors) < MaxVectors
    /\ Len(arrays) < MaxArrays
    /\ LET r == PathCopy(vectors, arrays, figure)
       IN /\ vectors' = r.vectors
          /\ arrays' = r.arrays
          /\ copyOf' = r.path
    /\ lastCall' = Call("copy", Null, 0, 0)
    /\ UNCHANGED <<figure, location, smoke, assigned, now, ticks, particle>>

\* p2.addSegment(segment)
CopyAddSegment(segment) ==
    /\ copyOf # NoPath
    /\ Len(Segments(copyOf)) < MaxSegments
    /\ arrays' = AddSegment(arrays, copyOf, segment)
    /\ lastCall' = Call("p2.addSegment", Null, 0, 0)
    /\ UNCHANGED <<vectors, figure, copyOf, location, smoke, assigned, now, ticks,
                   particle>>

\* location = walkToSegment(figure, branchIndex)
Walk(branchIndex) ==
    /\ Len(vectors) < MaxVectors
    /\ LET r == WalkToSegment(vectors, arrays, figure, branchIndex)
       IN /\ vectors' = r.vectors
          /\ location' = [offset |-> r.offset, heading |-> r.heading]
    /\ lastCall' = Call("walkToSegment", branchIndex, 0, 0)
    /\ UNCHANGED <<arrays, figure, copyOf, smoke, assigned, now, ticks, particle>>

PathNext ==
    \/ \E segment \in PathSegments : FigureAddSegment(segment)
    \/ Copy
    \/ \E segment \in PathSegments : CopyAddSegment(segment)
    \/ \E branchIndex \in 0 .. MaxSegments : Walk(branchIndex)

SpecPath == PathInit /\ [][PathNext]_vars

----------------------------------------------------------------------------
(* A SmokeParticle on its own: update with non-decreasing timestamps, and
   the fadeIn / fadeOut triggers, in any order *)

\* how far the timestamp of an update is past the previous one, in ms
UpdateSteps == {0, 100, 850, 100000}

ParticleInit ==
    /\ vectors = << >>
    /\ arrays = << >>
    /\ figure = NoPath
    /\ copyOf = NoPath
    /\ location = NoLocation
    /\ smoke = NoSmoke
    /\ assigned = {}
    /\ now \in StartTimes
    /\ ticks = 0
    /\ \E distanceOffset \in SpawnOffsets(2), speed \in Speeds,
          xoffAngleStart \in XoffAngleStarts, gap \in Gaps :
          particle = NewParticle(1, distanceOffset, speed, xoffAngleStart, gap, now)
    /\ lastCall = Call("new", Null, 0, 0)

\* particle.update(time) with time = now + dt
UpdateParticle(dt) ==
    /\ ticks < MaxTicks
    /\ now' = now + dt
    /\ ticks' = ticks + 1
    /\ particle' = ParticleUpdate(particle, now')
    /\ lastCall' = Call("update", Null, 0, 0)
    /\ UNCHANGED <<vectors, arrays, figure, copyOf, location, smoke, assigned>>

\* particle.fadeIn()
TriggerFadeIn ==
    /\ particle' = FadeIn(particle)
    /\ lastCall' = Call("fadeIn", Null, 0, 0)
    /\ UNCHANGED <<vectors, arrays, figure, copyOf, location, smoke, assigned, now,
                   ticks>>

\* particle.fadeOut()
TriggerFadeOut ==
    /\ particle' = FadeOut(particle)
    /\ lastCall' = Call("fadeOut", Null, 0, 0)
    /\ UNCHANGED <<vectors, arrays, figure, copyOf, location, smoke, assigned, now,
                   ticks>>

ParticleNext ==
    \/ \E dt \in UpdateSteps : UpdateParticle(dt)
    \/ TriggerFadeIn
    \/ TriggerFadeOut

SpecParticle == ParticleInit /\ [][ParticleNext]_vars

----------------------------------------------------------------------------
(* calculateParticlePositions on its own: a smoke whose path and particles
   are drawn from bounded sets, particles sorted ascending by distance *)

\* segments of the path: of length 2 as generated, and of length zero
CalcSegments == {PathSegment(5, SegmentDistance), PathSegment(-3, 0)}
\* distances of the particles
CalcDistances == {0, 1000, SegmentDistance, 3500, 9000}
\* a particle at that distance in that phase of its life
CalcParticle(distance, alphaDirection) ==
    [NewParticle(0, 0, 100, 0, 5000, 0) EXCEPT
        !.distance = distance,
        !.alphaDirection = alphaDirection,
        !.alpha = IF alphaDirection = 0 THEN FullAlpha ELSE 1200]

SeqsUpTo(S, n) == UNION {[1 .. k -> S] : k \in 0 .. n}

IsSortedByDistance(ps) ==
    \A i \in 1 .. Len(ps) - 1 : ps[i].distance <= ps[i + 1].distance

CalcInit ==
    /\ vectors = <<ParentOrigin>>
    /\ arrays \in {<<segments>> : segments \in SeqsUpTo(CalcSegments, MaxCalcSegments)}
    /\ figure = NoPath
    /\ copyOf = NoPath
    /\ location = NoLocation
    /\ \E ps \in SeqsUpTo({CalcParticle(d, a) : d \in CalcDistances, a \in {-1, 0, 1}},
                          MaxCalcParticles) :
          /\ IsSortedByDistance(ps)
          /\ smoke = [originPosition |-> 1, originHeading |-> 10, segments |-> 1,
                      particles |-> [i \in 1 .. Len(ps) |-> [ps[i] EXCEPT !.id = i]]]
    /\ assigned = {}
    /\ now = 0
    /\ ticks = 0
    /\ particle = NoParticle
    /\ lastCall = NoCall

\* smoke.calculateParticlePositions()
Calculate ==
    /\ LET r == CalculateParticlePositions(Origin(smoke), smoke.originHeading,
                                           Segments(smoke), smoke.particles)
       IN /\ smoke' = [smoke EXCEPT !.particles = r.particles]
          /\ assigned' = r.assigned
    /\ lastCall' = Call("calculateParticlePositions", Null, 0, 0)
    /\ UNCHANGED <<vectors, arrays, figure, copyOf, location, now, ticks, particle>>

CalcNext == Calculate

SpecCalc == CalcInit /\ [][CalcNext]_vars

----------------------------------------------------------------------------
(* Properties of a SmokeParticle on its own (SpecParticle) *)

\* C1: after every update call, whatever the time since the previous one
\* and whichever of fadeIn / fadeOut was triggered in between, alpha lies
\* between 0 and 255.
C1_AlphaWithinBounds ==
    lastCall.op = "update" => (0 <= particle.alpha /\ particle.alpha <= FullAlpha)

\* a single update 100 s after construction has clamped the fade-in at 255
C1_Witness ==
    /\ lastCall.op = "update"
    /\ ticks = 1
    /\ now - particle.creationTime = 100000
    /\ particle.alpha = FullAlpha
    /\ particle.alphaDirection = 0

\* C2: an update that takes a fading-out particle to alpha 0 clears
\* alphaDirection and sets isAlive to false, and a particle that is not
\* alive is not alive after any further call.
C2_DeadStaysDead ==
    [][/\ (particle.alphaDirection = -1 /\ lastCall'.op = "update" /\ particle'.alpha = 0)
            => (particle'.alphaDirection = 0 /\ ~particle'.isAlive)
       /\ ~particle.isAlive => ~particle'.isAlive]_vars

\* a dead particle on which a fade was triggered and that was updated again
C2_Witness ==
    /\ lastCall.op = "update"
    /\ ~particle.isAlive
    /\ particle.alphaDirection = -1
    /\ particle.alpha < FullAlpha

\* C8: after an update the distance is speed * (time - creationTime) / 1000,
\* and between two successive updates of a particle that is not fading out,
\* the second with the later timestamp, the distance does not decrease.
C8_DistanceFromElapsed ==
    [][lastCall'.op = "update" =>
         /\ particle'.distance = particle.speed * (now' - particle.creationTime)
         /\ (lastCall.op = "update" /\ now' > now /\ particle.alphaDirection # -1)
               => particle'.distance >= particle.distance]_vars

\* a particle constructed at a distance offset and updated twice
C8_Witness ==
    /\ lastCall.op = "update"
    /\ ticks >= 2
    /\ particle.alphaDirection # -1
    /\ particle.distance > 1500

----------------------------------------------------------------------------
(* Properties of the smoke system (Spec) *)

RECURSIVE SumAnglesBetween(_, _, _)
\* the sum of the angles of segments lo .. hi, by halves
SumAnglesBetween(segments, lo, hi) ==
    IF lo > hi THEN 0
    ELSE IF lo = hi THEN segments[lo].angle
    ELSE LET mid == (lo + hi) \div 2
         IN SumAnglesBetween(segments, lo, mid) + SumAnglesBetween(segments, mid + 1, hi)

\* the directional vector of segment n of a path that starts with heading h0
DirectionalVector(h0, segments, n) ==
    FromAngle(h0 + SumAnglesBetween(segments, 1, n), segments[n].distance)

RECURSIVE SumVectorsBetween(_, _, _, _)
\* the sum of the directional vectors of segments lo .. hi, by halves
SumVectorsBetween(h0, segments, lo, hi) ==
    IF lo > hi THEN ZeroVector
    ELSE IF lo = hi THEN DirectionalVector(h0, segments, lo)
    ELSE LET mid == (lo + hi) \div 2
         IN VecAdd(SumVectorsBetween(h0, segments, lo, mid),
                   SumVectorsBetween(h0, segments, mid + 1, hi))

RECURSIVE SumDistancesBetween(_, _, _)
\* the arc length of segments lo .. hi, by halves
SumDistancesBetween(segments, lo, hi) ==
    IF lo > hi THEN 0
    ELSE IF lo = hi THEN segments[lo].distance
    ELSE LET mid == (lo + hi) \div 2
         IN SumDistancesBetween(segments, lo, mid)
               + SumDistancesBetween(segments, mid + 1, hi)

SumAngles(segments, n) == SumAnglesBetween(segments, 1, n)
SumVectors(h0, segments, n) == SumVectorsBetween(h0, segments, 1, n)
SumDistances(segments, n) == SumDistancesBetween(segments, 1, n)

TotalPathLength(path) == SumDistances(Segments(path), Len(Segments(path)))

FinalVertex(path) ==
    VecAdd(Origin(path), SumVectors(path.originHeading, Segments(path), Len(Segments(path))))

ParticlesOf(s) == {s.particles[i] : i \in 1 .. Len(s.particles)}

\* fading-in, steady, fading-out in the order of the lifecycle
LifecycleRank(alphaDirection) ==
    IF alphaDirection = 1 THEN 0 ELSE IF alphaDirection = 0 THEN 1 ELSE 2

\* C3 as stated, on a smoke whose path has at least one segment: in an
\* update call, a particle that the position walk moves to fading-out was
\* steady when its own update returned, never fading-in.
C3_FadeOutOnlyFromSteady ==
    [][(lastCall'.op = "update" /\ Len(Segments(smoke)) > 0) =>
         \A p \in ParticlesOf(smoke), q \in ParticlesOf(smoke') :
            (q.id = p.id /\ q.alphaDirection = -1
                /\ ParticleUpdate(p, now).alphaDirection # -1)
               => ParticleUpdate(p, now).alphaDirection = 0]_vars

\* C3 as amended: over an update call a particle never moves backward in
\* the order fading-in, steady, fading-out (it may skip steady and enter
\* fading-out directly from fading-in), and it is removed only while
\* fading out.
C3_LifecycleOnlyForward ==
    [][lastCall'.op = "update" =>
         \A p \in ParticlesOf(smoke) :
            /\ \A q \in ParticlesOf(smoke') :
                  q.id = p.id
                     => LifecycleRank(q.alphaDirection) >= LifecycleRank(p.alphaDirection)
            /\ (\A q \in ParticlesOf(smoke') : q.id # p.id) => p.alphaDirection = -1]_vars

\* on a 50-segment path, a particle that is fading out before it can have
\* finished fading in, the other particle still fading in
C3_Witness ==
    /\ lastCall.op = "update"
    /\ Len(Segments(smoke)) = 50
    /\ \E q \in ParticlesOf(smoke) :
          /\ q.alphaDirection = -1
          /\ AlphaRate * (q.lastTime - q.creationTime) < FullAlpha
          /\ q.distance > TotalPathLength(smoke)
    /\ \E q \in ParticlesOf(smoke) : q.alphaDirection = 1

\* C4: after an update call, every particle left whose distance exceeds the
\* total length of the path sits at the path's final vertex and is fading
\* out (so it is not fading in, and fade-out has been triggered on it if it
\* had not been before).
C4_OverrunPinnedAndFading ==
    lastCall.op = "update" =>
        \A q \in ParticlesOf(smoke) :
            q.distance > TotalPathLength(smoke)
               => (q.position = FinalVertex(smoke) /\ q.alphaDirection = -1)

\* one particle past the end of a 50-segment path, the other still on it
\* and steady
C4_Witness ==
    /\ lastCall.op = "update"
    /\ Len(Segments(smoke)) = 50
    /\ \E q \in ParticlesOf(smoke) :
          q.distance > TotalPathLength(smoke) /\ q.position = FinalVertex(smoke)
    /\ \E q \in ParticlesOf(smoke) :
          q.distance < TotalPathLength(smoke) /\ q.alphaDirection = 0

\* C5 as stated, on a smoke whose path has at least one segment: the first
\* update, at time = creationTime, leaves every seeded particle at the
\* distance offset it was constructed with, with alpha 0.
C5_FirstUpdateKeepsOffset ==
    [][(lastCall.op = "new" /\ lastCall'.op = "update" /\ Len(Segments(smoke)) > 0) =>
         \A p \in ParticlesOf(smoke) :
            now = p.creationTime =>
               \E q \in ParticlesOf(smoke') :
                  q.id = p.id /\ q.distance = p.distance /\ q.alpha = 0]_vars

\* C6: the constructor called with minLength = maxLength = n builds n
\* segments, and with minLength < maxLength a number of segments in
\* [minLength, maxLength); every segment has distance 2, so the arc length
\* is twice the number of segments; and it seeds 2 particles, alive, with
\* alpha 0, fading in.
C6_ConstructedSmoke ==
    lastCall.op = "new" =>
        LET n == Len(Segments(smoke))
        IN /\ lastCall.minLength = lastCall.maxLength => n = lastCall.minLength
           /\ lastCall.minLength < lastCall.maxLength
                 => (lastCall.minLength <= n /\ n < lastCall.maxLength)
           /\ \A i \in 1 .. n : Segments(smoke)[i].distance = 2 * 1000
           /\ TotalPathLength(smoke) = 2 * 1000 * n
           /\ Len(smoke.particles) = 2
           /\ \A p \in ParticlesOf(smoke) :
                 p.isAlive /\ p.alpha = 0 /\ p.alphaDirection = 1

\* a smoke constructed with minLength = maxLength = 50
C6_Witness ==
    /\ lastCall.op = "new"
    /\ lastCall.minLength = 50
    /\ lastCall.maxLength = 50
    /\ Len(Segments(smoke)) = 50
    /\ Len(smoke.particles) = 2

\* C11: particles are created only by the constructor: over any update or
\* draw call the number of particles does not increase, and every particle
\* afterwards is one of the 2 seeded ones, held by the smoke before the call.
C11_NoParticleAfterSeeding ==
    [][lastCall'.op \in {"update", "draw"} =>
         /\ Len(smoke'.particles) <= Len(smoke.particles)
         /\ \A q \in ParticlesOf(smoke') :
               /\ q.id \in 1 .. SeedParticles
               /\ \E p \in ParticlesOf(smoke) :
                     p.id = q.id /\ p.creationTime = q.creationTime]_vars

\* an update removed one of the two seeded particles and kept the other
C11_Witness ==
    /\ lastCall.op = "update"
    /\ ticks >= 2
    /\ Len(smoke.particles) = 1
    /\ smoke.particles[1].id \in 1 .. SeedParticles

\* C12 as stated: the constructor called without a branchIndex on a parent
\* figure with zero segments builds nothing: afterwards there is no smoke
\* (no path, no particles) and the heap holds no new vector or array.
C12_EmptyParentRejected ==
    [][(/\ lastCall.op = "none"
        /\ lastCall'.op = "new"
        /\ lastCall'.branchIndex = Null
        /\ Len(Segments(figure)) = 0) =>
         (smoke' = NoSmoke /\ vectors' = vectors /\ arrays' = arrays)]_vars

\* C13: after an update call every particle left in the smoke is alive: a
\* particle that its own update in this call left not alive is gone after
\* the call, the others are all kept, and positions were calculated for the
\* kept ones only.
C13_OnlyAliveRemain ==
    [][(lastCall'.op = "update" /\ now' = now) =>
         /\ \A q \in ParticlesOf(smoke') : q.isAlive
         /\ \A p \in ParticlesOf(smoke) :
               ParticleUpdate(p, now).isAlive <=> \E q \in ParticlesOf(smoke') : q.id = p.id
         /\ Len(smoke'.particles)
               = Cardinality({p \in ParticlesOf(smoke) : ParticleUpdate(p, now).isAlive})
         /\ assigned' \subseteq 0 .. (Len(smoke'.particles) - 1)]_vars

\* the update in which one particle's fade-out ended: it is gone, the other
\* is alive and was given its position
C13_Witness ==
    /\ lastCall.op = "update"
    /\ Len(smoke.particles) = 1
    /\ smoke.particles[1].isAlive
    /\ smoke.particles[1].lastTime = now
    /\ assigned = {0}

\* C14: in an update call the array calculateParticlePositions starts on is
\* ordered ascending by distance, the call leaves the particles in that
\* order, and so after the update particles[i].distance <=
\* particles[i+1].distance for all adjacent i.
C14_SortedByDistance ==
    [][(lastCall'.op = "update" /\ now' = now) =>
         LET sorted == SortByDistance(FilterUpdate(smoke.particles, 1, now), 1, << >>)
         IN /\ \A i \in 1 .. Len(sorted) - 1 : sorted[i].distance <= sorted[i + 1].distance
            /\ Len(smoke'.particles) = Len(sorted)
            /\ \A i \in 1 .. Len(sorted) :
                  /\ smoke'.particles[i].id = sorted[i].id
                  /\ smoke'.particles[i].distance = sorted[i].distance
            /\ \A i \in 1 .. Len(smoke'.particles) - 1 :
                  smoke'.particles[i].distance <= smoke'.particles[i + 1].distance]_vars

\* the particle seeded second is the slower one: the update has put it first
C14_Witness ==
    /\ lastCall.op = "update"
    /\ Len(smoke.particles) = 2
    /\ smoke.particles[1].id = 2
    /\ smoke.particles[2].id = 1
    /\ smoke.particles[1].distance < smoke.particles[2].distance

\* C17: in an update call, the update of a particle whose previous
\* timestamp (lastTime) is the call's timestamp leaves its alpha,
\* alphaDirection and isAlive as they were; and a second update call at the
\* timestamp of this one would leave the smoke exactly as this one left it.
C17_SameTimestampUpdate ==
    [][(lastCall'.op = "update" /\ now' = now) =>
         /\ \A p \in ParticlesOf(smoke) :
               p.lastTime = now =>
                  LET u == ParticleUpdate(p, now)
                  IN /\ u.alpha = p.alpha
                     /\ u.alphaDirection = p.alphaDirection
                     /\ u.isAlive = p.isAlive
         /\ \A q \in ParticlesOf(smoke') : q.lastTime = now
         /\ SmokeUpdate(smoke', vectors'[smoke'.originPosition],
                        arrays'[smoke'.segments], now).smoke = smoke']_vars

\* update called with the clock where the constructor left it, so with the
\* timestamp the particles hold as lastTime: both are as constructed
C17_Witness ==
    /\ lastCall.op = "update"
    /\ ticks = 0
    /\ Len(Segments(smoke)) > 0
    /\ Len(smoke.particles) = SeedParticles
    /\ \A q \in ParticlesOf(smoke) :
          /\ q.lastTime = now
          /\ q.creationTime = now
          /\ q.alpha = 0
          /\ q.alphaDirection = 1
          /\ q.isAlive

\* C18 as stated, on a smoke whose path has at least one segment: over an
\* update call the alpha of a particle that is fading out does not
\* increase, and a particle on which the call triggers fade-out starts it
\* from the alpha its own update left it with.
C18_FadeOutFromCurrentAlpha ==
    [][(lastCall'.op = "update" /\ now' = now /\ Len(Segments(smoke)) > 0) =>
         \A p \in ParticlesOf(smoke), q \in ParticlesOf(smoke') :
            q.id = p.id =>
               /\ p.alphaDirection = -1 => q.alpha <= p.alpha
               /\ (ParticleUpdate(p, now).alphaDirection # -1 /\ q.alphaDirection = -1)
                     => q.alpha = ParticleUpdate(p, now).alpha]_vars

\* C18 as amended: over an update call a particle that is fading out stays
\* fading out with its alpha lowered by 300 per second since its previous
\* update, so its alpha never increases and is not set to 255 again; the
\* trigger itself sets alpha to 255, whatever the particle's alpha was.
C18_FadeOutFromFullAlpha ==
    [][(lastCall'.op = "update" /\ now' = now) =>
         \A p \in ParticlesOf(smoke), q \in ParticlesOf(smoke') :
            q.id = p.id =>
               /\ p.alphaDirection = -1 =>
                     /\ q.alphaDirection = -1
                     /\ q.alpha = p.alpha - AlphaRate * (now - p.lastTime)
                     /\ q.alpha <= p.alpha
               /\ (ParticleUpdate(p, now).alphaDirection # -1 /\ q.alphaDirection = -1)
                     => (q.alpha = FullAlpha /\ q.alpha >= ParticleUpdate(p, now).alpha)]_vars

\* past the end of a 50-segment path, a particle whose fade-out was
\* triggered in an earlier update and has gone on since
C18_Witness ==
    /\ lastCall.op = "update"
    /\ Len(Segments(smoke)) = 50
    /\ \E q \in ParticlesOf(smoke) :
          /\ q.distance > TotalPathLength(smoke)
          /\ q.lastTime = now
          /\ q.alphaDirection = -1
          /\ 0 < q.alpha
          /\ q.alpha < FullAlpha

----------------------------------------------------------------------------
(* Properties of the smoke system run frame by frame (SpecLive) *)

\* the smoke holds the particle seeded as number id
Holds(id) == \E q \in ParticlesOf(smoke) : q.id = id

\* the particle seeded as number id is past the end of the path, fading out
OverrunFading(id) ==
    \E q \in ParticlesOf(smoke) :
        q.id = id /\ q.distance > TotalPathLength(smoke) /\ q.alphaDirection = -1

\* C19: with update called frame after frame at strictly increasing
\* timestamps, a seeded particle leaves the smoke only after it has been
\* past the end of the path and fading out, and eventually the particles
\* collection is empty and stays empty forever: every seeded particle
\* overruns the path, fades out and is removed.
C19_EventuallyEmptyForever ==
    /\ [][\A id \in 1 .. SeedParticles :
             (Holds(id) /\ ~Holds(id)') => OverrunFading(id)]_vars
    /\ <>[](lastCall.op # "none" /\ Len(smoke.particles) = 0)

\* a smoke with a 50-segment path that an update has left without particles
C19_Witness ==
    /\ lastCall.op = "update"
    /\ Len(Segments(smoke)) = 50
    /\ TotalPathLength(smoke) = 50 * SegmentDistance
    /\ Len(smoke.particles) = 0
    /\ now > 40 + 1000 + 850

----------------------------------------------------------------------------
(* Properties of calculateParticlePositions on its own (SpecCalc) *)

\* C7: a call on N particles sorted ascending by distance writes the
\* position of every index 0 .. N-1 and keeps the number of particles, also
\* when particles share a segment or a distance and when segments have
\* length zero; with N = 0 it changes nothing.
C7_EveryParticlePositioned ==
    [][lastCall'.op = "calculateParticlePositions" =>
         /\ Len(smoke'.particles) = Len(smoke.particles)
         /\ assigned' = 0 .. (Len(smoke.particles) - 1)
         /\ Len(smoke.particles) = 0 => smoke' = smoke]_vars

\* two particles at the same distance on a path with a zero-length segment,
\* both positioned
C7_Witness ==
    /\ lastCall.op = "calculateParticlePositions"
    /\ Len(smoke.particles) = 2
    /\ smoke.particles[1].distance = smoke.particles[2].distance
    /\ \E i \in 1 .. Len(Segments(smoke)) : Segments(smoke)[i].distance = 0
    /\ assigned = {0, 1}

\* the point of the path at arc length d <= total length: in the first
\* segment k with d <= the length through k, d minus the length before k
\* from that segment's start; the origin on a path without segments
PointAtArcLength(origin, h0, segments, d) ==
    IF Len(segments) = 0 THEN origin
    ELSE LET k == CHOOSE j \in 1 .. Len(segments) :
                     /\ d <= SumDistances(segments, j)
                     /\ \A m \in 1 .. j - 1 : d > SumDistances(segments, m)
         IN VecAdd(VecAdd(origin, SumVectors(h0, segments, k - 1)),
                   FromAngle(h0 + SumAngles(segments, k),
                             d - SumDistances(segments, k - 1)))

\* C15: on particles sorted ascending by distance and segments of
\* non-negative length, calculateParticlePositions gives every particle
\* whose distance d is at most the total length of the path the position
\* of the path point at arc length d.
C15_PlacedAtArcLength ==
    [][lastCall'.op = "calculateParticlePositions" =>
         \A i \in 1 .. Len(smoke.particles) :
            smoke.particles[i].distance <= TotalPathLength(smoke)
               => smoke'.particles[i].position
                     = PointAtArcLength(Origin(smoke), smoke.originHeading,
                                        Segments(smoke), smoke.particles[i].distance)]_vars

\* two particles on a path of two segments of length 2, the first placed
\* half way along the first segment, the second 1.5 into the second
C15_Witness ==
    /\ lastCall.op = "calculateParticlePositions"
    /\ Len(Segments(smoke)) = 2
    /\ TotalPathLength(smoke) = 2 * SegmentDistance
    /\ Len(smoke.particles) = 2
    /\ smoke.particles[1].distance = 1000
    /\ smoke.particles[1].position = VecAdd(ParentOrigin, FromAngle(15, 1000))
    /\ smoke.particles[2].distance = 3500
    /\ smoke.particles[2].position
          = VecAdd(VecAdd(ParentOrigin, FromAngle(15, SegmentDistance)), FromAngle(20, 1500))

\* C16 as stated: calculateParticlePositions moves a particle to fading-out
\* only if its distance strictly exceeds the total length of the path, also
\* on a path without segments, and a particle whose distance does exceed it
\* is fading out afterwards.
C16_FadeOutIffOverrun ==
    [][lastCall'.op = "calculateParticlePositions" =>
         \A i \in 1 .. Len(smoke.particles) :
            /\ (smoke.particles[i].alphaDirection # -1
                   /\ smoke'.particles[i].alphaDirection = -1)
                  => smoke.particles[i].distance > TotalPathLength(smoke)
            /\ smoke.particles[i].distance > TotalPathLength(smoke)
                  => smoke'.particles[i].alphaDirection = -1]_vars

----------------------------------------------------------------------------
(* Properties of paths on their own (SpecPath) *)

\* every way to follow the first n segments by other segments, up to one
\* segment more than a figure is built with
WithOtherTail(segments, n) ==
    {SubSeq(segments, 1, n) \o tail : tail \in SeqsUpTo(PathSegments, MaxSegments + 1 - n)}

\* C9: walkToSegment(figure, branchIndex) with branchIndex in
\* [0, segments.length) returns as heading originHeading plus the angles of
\* the segments before branchIndex, and as offset the origin plus their
\* directional vectors; it returns the same for any figure that differs
\* from branchIndex on only; and it leaves the figure's origin vector,
\* heading and segments as they were.
C9_WalkToSegment ==
    [][(/\ lastCall'.op = "walkToSegment"
        /\ lastCall'.branchIndex < Len(Segments(figure))
        /\ (vectors' # vectors \/ location' # location)) =>
         LET b == lastCall'.branchIndex
         IN /\ location'.heading = figure.originHeading + SumAngles(Segments(figure), b)
            /\ vectors'[location'.offset] =
                  VecAdd(Origin(figure), SumVectors(figure.originHeading, Segments(figure), b))
            /\ \A other \in WithOtherTail(Segments(figure), b) :
                  WalkLoop(other, b, 0, Origin(figure), figure.originHeading)
                     = [offset |-> vectors'[location'.offset], heading |-> location'.heading]
            /\ location'.offset # figure.originPosition
            /\ figure' = figure
            /\ vectors'[figure.originPosition] = vectors[figure.originPosition]
            /\ arrays' = arrays]_vars

\* a walk to the second segment of a two-segment figure
C9_Witness ==
    /\ lastCall.op = "walkToSegment"
    /\ lastCall.branchIndex = 1
    /\ Len(Segments(figure)) = 2
    /\ Segments(figure)[1].distance > 0
    /\ location.heading = figure.originHeading + Segments(figure)[1].angle
    /\ vectors[location.offset] # Origin(figure)

\* C10: p2 = p.copy() has the segments of p, element by element, p's
\* originHeading and p's origin vector itself, in an array of its own; from
\* then on addSegment on p2 leaves p's segments as they are and addSegment
\* on p leaves those of p2.
C10_CopyIndependent ==
    [][/\ (lastCall'.op = "copy" /\ arrays' # arrays) =>
            /\ Len(Segments(copyOf)') = Len(Segments(figure))
            /\ \A i \in 1 .. Len(Segments(figure)) :
                  /\ Segments(copyOf)'[i].angle = Segments(figure)[i].angle
                  /\ Segments(copyOf)'[i].distance = Segments(figure)[i].distance
            /\ copyOf'.originHeading = figure.originHeading
            /\ copyOf'.originPosition = figure.originPosition
            /\ Segments(figure)' = Segments(figure)
       /\ (lastCall'.op = "p2.addSegment" /\ arrays' # arrays) =>
            /\ Segments(figure)' = Segments(figure)
            /\ Len(Segments(copyOf)') = Len(Segments(copyOf)) + 1
       /\ (lastCall'.op = "p.addSegment" /\ arrays' # arrays /\ copyOf # NoPath) =>
            /\ Segments(copyOf)' = Segments(copyOf)
            /\ Len(Segments(figure)') = Len(Segments(figure)) + 1]_vars

\* a copy of a non-empty path, after which each of the two got a segment
\* the other did not
C10_Witness ==
    /\ copyOf # NoPath
    /\ Len(Segments(figure)) = 2
    /\ Len(Segments(copyOf)) = 2
    /\ Segments(figure)[1] = Segments(copyOf)[1]
    /\ Segments(figure)[2] # Segments(copyOf)[2]
    /\ copyOf.originPosition = figure.originPosition

====
